---- MODULE Spec2Model ----
(***************************************************************************)
(* Model of plaso/frontend/pinfo.py: the pinfo front-end that formats the  *)
(* storage information of a plaso storage file.                            *)
(*                                                                         *)
(* A string is modelled as the non-empty sequence of its lines (the parts  *)
(* between newline characters); a line is a sequence of tokens.  The empty *)
(* string is the one-line text with no tokens.                             *)
(***************************************************************************)
EXTENDS Integers, Sequences, FiniteSets

\* Largest number of storage information objects in the storage file.
MaxRecords == 2
\* Largest number of analysis reports in the storage file.
MaxReports == 2
\* Largest number of labels of a counter in the counter specification.
MaxLabels == 3

----------------------------------------------------------------------------
\* Strings

Lit(str) == [s |-> str, n |-> 0]
Num(i) == [s |-> "%d", n |-> i]

EmptyStr == << <<>> >>
Str(tokens) == << tokens >>

\* a + b on strings
StrConcat(a, b) ==
  SubSeq(a, 1, Len(a) - 1) \o << a[Len(a)] \o b[1] >> \o SubSeq(b, 2, Len(b))

\* u'\n'.join(list)
RECURSIVE Join(_)
Join(list) ==
  IF list = <<>> THEN EmptyStr
  ELSE IF Len(list) = 1 THEN list[1]
  ELSE list[1] \o Join(Tail(list))

\* self._printer.pformat(value)
Pformat(val) == Str(<< Lit("pformat"), Lit(val) >>)

\* timelib.Timestamp.CopyToIsoFormat(time_of_run)
CopyToIsoFormat(timestamp) == [s |-> "iso8601", n |-> timestamp]

----------------------------------------------------------------------------
\* Dictionaries and objects.  A dict is the sequence of its items in the
\* order items() returns them; an item is [key, val, n] where val is the
\* str() of a non-integer value and n an integer value.  An object is its
\* __dict__: a sequence of attributes [key, islist, items, val] where items
\* is the content of a dict valued attribute and val the str() of the value.

Item(key, val, n) == [key |-> key, val |-> val, n |-> n]
Attr(key, islist, items, val) ==
  [key |-> key, islist |-> islist, items |-> items, val |-> val]

HasKey(d, key) == \E i \in 1..Len(d) : d[i].key = key
Lookup(d, key) == d[CHOOSE i \in 1..Len(d) : d[i].key = key]

\* getattr(info, name, None) followed by the truth test of the value
AttrIsSet(info, name) == HasKey(info, name) /\ Lookup(info, name).items # <<>>

----------------------------------------------------------------------------
\* Counter.most_common(): sorted(items, key=itemgetter(1), reverse=True).

\* faulty variant: an element is placed before the elements of equal count
RECURSIVE InsertByCountUnstable(_, _)
InsertByCountUnstable(sorted, item) ==
  IF sorted = <<>> THEN << item >>
  ELSE IF Head(sorted).n > item.n
       THEN << Head(sorted) >> \o InsertByCountUnstable(Tail(sorted), item)
       ELSE << item >> \o sorted

RECURSIVE InsertByCount(_, _)
InsertByCount(sorted, item) ==
  IF sorted = <<>> THEN << item >>
  ELSE IF Head(sorted).n >= item.n
       THEN << Head(sorted) >> \o InsertByCount(Tail(sorted), item)
       ELSE << item >> \o sorted

RECURSIVE SortedByCount(_, _)
SortedByCount(items, sorted) ==
  IF items = <<>> THEN sorted
  ELSE SortedByCount(Tail(items), InsertByCount(sorted, Head(items)))

most_common(counter) == SortedByCount(counter, <<>>)

----------------------------------------------------------------------------
\* PinfoFrontend formatting methods.  lines_of_text is a sequence of strings.

storage_file_path == "storage.plaso"

DictGetVal(d, key, default) == IF HasKey(d, key) THEN Lookup(d, key).val ELSE default
DictGetNum(d, key, default) == IF HasKey(d, key) THEN Lookup(d, key).n ELSE default

RECURSIVE CollectionItems(_)
CollectionItems(items) ==
  IF items = <<>> THEN <<>>
  ELSE (IF Head(items).key \notin {"file_processed", "time_of_run"}
        THEN << Str(<< Lit("\t"), Lit(Head(items).key), Lit(" = "),
                       Lit(Head(items).val) >>) >>
        ELSE <<>>) \o CollectionItems(Tail(items))

_AddCollectionInformation(lines_of_text, collection_information) ==
  LET filename == DictGetVal(collection_information, "file_processed", "N/A")
      time_of_run == CopyToIsoFormat(
          DictGetNum(collection_information, "time_of_run", 0))
  IN lines_of_text \o
     << Str(<< Lit("Storage file:\t\t"), Lit(storage_file_path) >>),
        Str(<< Lit("Source processed:\t"), Lit(filename) >>),
        Str(<< Lit("Time of processing:\t"), time_of_run >>),
        EmptyStr,
        Str(<< Lit("Collection information:") >>) >>
     \o CollectionItems(collection_information)

CounterLine(item) ==
  Str(<< Lit("\tCounter: "), Lit(item.key), Lit(" = "), Num(item.n) >>)

_AddCounterInformation(lines_of_text, description, counter_information) ==
  LET common == most_common(counter_information)
  IN lines_of_text \o
     << EmptyStr, Str(<< Lit(description), Lit(":") >>) >>
     \o [i \in 1..Len(common) |-> CounterLine(common[i])]

_AddHeader(lines_of_text) ==
  lines_of_text \o
  << Str(<< Lit("-" ), Lit("* _LINE_LENGTH") >>),
     Str(<< Lit("\t\tPlaso Storage Information") >>),
     Str(<< Lit("-" ), Lit("* _LINE_LENGTH") >>) >>

StoreOmitted ==
  Str(<< Lit("\tStore information details omitted (to see use: --verbose)") >>)

RECURSIVE StoreItems(_)
StoreItems(items) ==
  IF items = <<>> THEN <<>>
  ELSE (IF Head(items).key \notin {"Number"}
        THEN << Str(<< Lit("\t"), Lit(Head(items).key), Lit(" =") >>)
                \o Pformat(Head(items).val) >>
        ELSE <<>>) \o StoreItems(Tail(items))

\* faulty variant: the store details are added whatever the verbosity
AddStoreInformationAlways(lines_of_text, store_information, verbose) ==
  lines_of_text \o
  << EmptyStr,
     Str(<< Lit("Store information:") >>),
     Str(<< Lit("\tNumber of available stores: "),
            Num(Lookup(store_information, "Number").n) >>) >>
  \o StoreItems(store_information)

_AddStoreInformation(lines_of_text, store_information, verbose) ==
  lines_of_text \o
  << EmptyStr,
     Str(<< Lit("Store information:") >>),
     Str(<< Lit("\tNumber of available stores: "),
            Num(Lookup(store_information, "Number").n) >>) >>
  \o (IF ~verbose THEN << StoreOmitted >>
      ELSE StoreItems(store_information))

PreprocessingOmitted ==
  Str(<< Lit("Preprocessing information omitted (to see use: --verbose).") >>)
ReportsOmitted ==
  Str(<< Lit("Reporting information omitted (to see use: --verbose).") >>)
NoReports == Str(<< Lit("No reports stored.") >>)

\* lines 131-152: the information block
Information(info, verbose) ==
  LET l1 == IF AttrIsSet(info, "collection_information")
            THEN _AddCollectionInformation(
                     _AddHeader(<<>>),
                     Lookup(info, "collection_information").items)
            ELSE << Str(<< Lit("Missing collection information.") >>) >>
      l2 == IF AttrIsSet(info, "counter")
            THEN _AddCounterInformation(
                     l1, "Parser counter information",
                     Lookup(info, "counter").items)
            ELSE l1
      l3 == IF AttrIsSet(info, "plugin_counter")
            THEN _AddCounterInformation(
                     l2, "Plugin counter information",
                     Lookup(info, "plugin_counter").items)
            ELSE l2
      l4 == IF AttrIsSet(info, "stores")
            THEN _AddStoreInformation(l3, Lookup(info, "stores").items, verbose)
            ELSE l3
  IN Join(l4)

\* lines 159-168: the loop over info.__dict__.items()
RECURSIVE PreprocessingItems(_, _)
PreprocessingItems(attributes, preprocessing) ==
  IF attributes = <<>> THEN preprocessing
  ELSE LET attribute == Head(attributes)
       IN IF attribute.key = "collection_information"
          THEN PreprocessingItems(Tail(attributes), preprocessing)
          ELSE IF attribute.key = "counter" \/ attribute.key = "stores"
          THEN PreprocessingItems(Tail(attributes), preprocessing)
          ELSE IF attribute.islist
          THEN PreprocessingItems(Tail(attributes), StrConcat(preprocessing,
                   Str(<< Lit("\t"), Lit(attribute.key), Lit(" =") >>)
                   \o Pformat(attribute.val) \o EmptyStr))
          ELSE PreprocessingItems(Tail(attributes), StrConcat(preprocessing,
                   Str(<< Lit("\t"), Lit(attribute.key), Lit(" = "),
                          Lit(attribute.val) >>) \o EmptyStr))

\* lines 154-168: the preprocessing block
Preprocessing(info, verbose) ==
  IF ~verbose THEN PreprocessingOmitted
  ELSE PreprocessingItems(
           info, Str(<< Lit("Preprocessing information:") >>) \o EmptyStr)

\* storage_file.HasReports() and storage_file.GetReports()
HasReports(storage_file) == storage_file.reports # <<>>
GetReports(storage_file) == storage_file.reports
\* report.GetString()
GetString(report) == Str(<< Lit(report) >>)

\* faulty variant: the report texts are never disclosed
ReportsNeverDisclosed(storage_file, verbose, last_entry) ==
  LET reports == IF ~last_entry THEN EmptyStr
                 ELSE IF HasReports(storage_file) THEN ReportsOmitted
                 ELSE NoReports
  IN [reports |-> reports,
      has_reports |-> IF last_entry THEN 1 ELSE 0,
      get_reports |-> 0]

\* lines 170-181: the reports block, with the number of calls of HasReports
\* and of GetReports made to determine it
Reports(storage_file, verbose, last_entry) ==
  LET reports1 == IF ~last_entry THEN EmptyStr
                  ELSE IF HasReports(storage_file) THEN ReportsOmitted
                  ELSE NoReports
      calls1 == IF last_entry THEN 1 ELSE 0
      calls2 == IF verbose /\ last_entry THEN 1 ELSE 0
      disclose == verbose /\ last_entry /\ HasReports(storage_file)
      report_list == [i \in 1..Len(GetReports(storage_file)) |->
                        GetString(GetReports(storage_file)[i])]
  IN [reports |-> IF disclose THEN Join(report_list) ELSE reports1,
      has_reports |-> calls1 + calls2,
      get_reports |-> IF disclose THEN 1 ELSE 0]

Delimiter == Str(<< Lit("-+"), Lit("* 40") >>)

\* lines 117-184; the result carries the blocks next to the returned string
_FormatStorageInformation(info, storage_file, last_entry, verbose) ==
  LET information == Information(info, verbose)
      preprocessing == Preprocessing(info, verbose)
      r == Reports(storage_file, verbose, last_entry)
  IN [string |-> Join(<< information, EmptyStr, preprocessing, EmptyStr,
                         r.reports, Delimiter >>),
      information |-> information,
      preprocessing |-> preprocessing,
      reports |-> r.reports,
      has_reports |-> r.has_reports,
      get_reports |-> r.get_reports]

----------------------------------------------------------------------------
\* The storage files and command line options the front-end is run on.

CollectionAttr ==
  Attr("collection_information", FALSE,
       << Item("time_of_run", "", 7), Item("method", "imaged", 0) >>,
       "{collection_information}")
CounterAttr(items) == Attr("counter", FALSE, items, "Counter(parsers)")
PluginCounterAttr(items) ==
  Attr("plugin_counter", FALSE, items, "Counter(plugins)")
StoresAttr ==
  Attr("stores", FALSE,
       << Item("Number", "", 1), Item("Store 1", "{store 1 details}", 0) >>,
       "{stores}")
HostnameAttr == Attr("hostname", FALSE, <<>>, "host-a")
UsersAttr == Attr("users", TRUE, <<>>, "[user list]")

\* The storage information objects (instances of PreprocessObject): with or
\* without collection information and parser counter, without plugin
\* counter or with an empty or a non-empty one, with or without store
\* information.
Infos ==
  { c \o p \o s \o << HostnameAttr, UsersAttr >> :
      c \in { <<>>,
              << CollectionAttr,
                 CounterAttr(<< Item("b", "", 2), Item("a", "", 5),
                                Item("c", "", 5) >>) >> },
      p \in { <<>>, << PluginCounterAttr(<<>>) >>,
              << PluginCounterAttr(<< Item("x", "", 3), Item("y", "", 3) >>) >> },
      s \in { <<>>, << StoresAttr >> } }

Labels == {"a", "b", "c", "d"}
Counts == {2, 5}

Keys(d) == { d[i].key : i \in 1..Len(d) }

RECURSIVE Counters(_)
\* the counters of at most len labels, in every order of their items
Counters(len) ==
  IF len = 0 THEN { <<>> }
  ELSE LET shorter == Counters(len - 1)
       IN shorter \cup
          { Append(t[1], Item(t[2], "", c)) :
              t \in { u \in shorter \X Labels :
                        Len(u[1]) = len - 1 /\ u[2] \notin Keys(u[1]) },
              c \in Counts }

\* the storage information objects of the counter specification
CounterInfos ==
  { << CounterAttr(t) >> : t \in Counters(MaxLabels) }
  \cup { << CollectionAttr, PluginCounterAttr(t) >> : t \in Counters(MaxLabels) }

RECURSIVE SeqsUpTo(_, _)
SeqsUpTo(S, len) ==
  IF len = 0 THEN { <<>> }
  ELSE LET shorter == SeqsUpTo(S, len - 1)
       IN shorter \cup
          { Append(t, x) : t \in { u \in shorter : Len(u) = len - 1 }, x \in S }

ReportNames == << "report 1", "report 2", "report 3" >>
ReportLists == { SubSeq(ReportNames, 1, k) : k \in 0..MaxReports }

Options == [verbose : BOOLEAN, valid : BOOLEAN]

----------------------------------------------------------------------------
VARIABLES
  options,                      \* the parsed command line (argparse.Namespace)
  storage,                      \* the storage file on disk
  _verbose,                     \* PinfoFrontend._verbose
  mainpc,                       \* position of Main
  storage_information_found,    \* local of Main
  storage_information,          \* loop variable of Main
  printed,                      \* what Main printed on stdout
  logged,                       \* the logging.error() messages
  genpc,                        \* position of the GetStorageInformation generator
  storage_file_open,            \* the opened StorageFile is not closed
  opens,                        \* number of OpenStorageFile() calls that succeeded
  list_of_storage_information,  \* local of the generator
  index,                        \* local of the generator
  last_entry,                   \* local of the generator
  yielded,                      \* the strings the generator yielded
  formatted,                    \* the _FormatStorageInformation calls made
  has_reports_calls,            \* number of HasReports() calls
  get_reports_calls             \* number of GetReports() calls

vars ==
  << options, storage, _verbose, mainpc, storage_information_found,
     storage_information, printed, logged, genpc, storage_file_open, opens,
     list_of_storage_information, index, last_entry, yielded, formatted,
     has_reports_calls, get_reports_calls >>

mainvars == << mainpc, storage_information_found, storage_information, printed >>
genvars ==
  << genpc, storage_file_open, opens, list_of_storage_information, index,
     last_entry, yielded, formatted, has_reports_calls, get_reports_calls >>

\* PinfoFrontend() and the first lines of Main, for given inputs
Start ==
  /\ _verbose = FALSE
  /\ mainpc = "ParseOptions"
  /\ storage_information_found = FALSE
  /\ storage_information = EmptyStr
  /\ printed = <<>>
  /\ logged = <<>>
  /\ genpc = "start"
  /\ storage_file_open = FALSE
  /\ opens = 0
  /\ list_of_storage_information = <<>>
  /\ index = 0
  /\ last_entry = FALSE
  /\ yielded = <<>>
  /\ formatted = <<>>
  /\ has_reports_calls = 0
  /\ get_reports_calls = 0

Init ==
  /\ options \in Options
  /\ storage \in [openable : BOOLEAN,
                  information : SeqsUpTo(Infos, MaxRecords),
                  reports : ReportLists]
  /\ Start

\* the runs on a storage file of at most one storage information object
\* that holds one counter
CounterInit ==
  /\ options \in Options
  /\ storage \in [openable : BOOLEAN,
                  information : SeqsUpTo(CounterInfos, 1),
                  reports : ReportLists]
  /\ Start

\* print string.encode(front_end.preferred_encoding) and print string
Encode(string) == [encoded |-> TRUE, string |-> string]
Plain(string) == [encoded |-> FALSE, string |-> string]

NoInformationFound == Str(<< Lit("No Plaso storage information found.") >>)

\* Main, lines 244-245 and PinfoFrontend.ParseOptions
ParseOptions ==
  /\ mainpc = "ParseOptions"
  /\ options.valid
  /\ _verbose' = options.verbose
  /\ mainpc' = "for"
  /\ UNCHANGED << options, storage, storage_information_found,
                  storage_information, printed, logged, genvars >>

\* Main, lines 246-250: ParseOptions raised BadConfigOption
BadConfigOption ==
  /\ mainpc = "ParseOptions"
  /\ ~options.valid
  /\ printed' = printed \o << Plain(Str(<< Lit("print_help()") >>)),
                              Plain(EmptyStr) >>
  /\ logged' = Append(logged, "BadConfigOption")
  /\ mainpc' = "return False"
  /\ UNCHANGED << options, storage, _verbose, storage_information_found,
                  storage_information, genvars >>

\* faulty variant: a storage file that cannot be opened is reported as an empty one
OpenFailureYieldsEmpty ==
  /\ mainpc = "for"
  /\ genpc = "start"
  /\ ~storage.openable
  /\ logged' = Append(logged, "Unable to open storage file")
  /\ genpc' = "yield 198"
  /\ yielded' = Append(yielded, EmptyStr)
  /\ storage_information' = EmptyStr
  /\ mainpc' = "body"
  /\ UNCHANGED << options, storage, _verbose, storage_information_found,
                  printed, storage_file_open, opens,
                  list_of_storage_information, index, last_entry, formatted,
                  has_reports_calls, get_reports_calls >>

\* lines 188-194: the generator is started and OpenStorageFile raises IOError;
\* the for statement of Main ends
OpenFailure ==
  /\ mainpc = "for"
  /\ genpc = "start"
  /\ ~storage.openable
  /\ logged' = Append(logged, "Unable to open storage file")
  /\ genpc' = "closed"
  /\ mainpc' = "after"
  /\ UNCHANGED << options, storage, _verbose, storage_information_found,
                  storage_information, printed, storage_file_open, opens,
                  list_of_storage_information, index, last_entry, yielded,
                  formatted, has_reports_calls, get_reports_calls >>

\* faulty variant: an empty list ends the generator without an item
EmptyYieldsNothing ==
  /\ mainpc = "for"
  /\ genpc = "start"
  /\ storage.openable
  /\ storage.information = <<>>
  /\ storage_file_open' = TRUE
  /\ opens' = opens + 1
  /\ list_of_storage_information' = storage.information
  /\ genpc' = "closed"
  /\ mainpc' = "after"
  /\ UNCHANGED << options, storage, _verbose, storage_information_found,
                  storage_information, printed, logged, index, last_entry,
                  yielded, formatted, has_reports_calls, get_reports_calls >>

\* lines 188-198: the generator is started, the storage file opens and holds
\* no storage information; the generator yields ''
YieldEmpty ==
  /\ mainpc = "for"
  /\ genpc = "start"
  /\ storage.openable
  /\ storage.information = <<>>
  /\ storage_file_open' = TRUE
  /\ opens' = opens + 1
  /\ list_of_storage_information' = storage.information
  /\ genpc' = "yield 198"
  /\ yielded' = Append(yielded, EmptyStr)
  /\ storage_information' = EmptyStr
  /\ mainpc' = "body"
  /\ UNCHANGED << options, storage, _verbose, storage_information_found,
                  printed, logged, index, last_entry, formatted,
                  has_reports_calls, get_reports_calls >>

\* faulty variant: the last entry test compares the index with the length
LastEntryOffByOne(flag, i, length) == IF i = length THEN TRUE ELSE flag

\* lines 204-205
LastEntry(flag, i, length) == IF i + 1 = length THEN TRUE ELSE flag

\* faulty variant: the list is enumerated from its end
InfoAtReversed(list, i) == list[Len(list) - i]

\* enumerate(list_of_storage_information), line 203
InfoAt(list, i) == list[i + 1]

\* lines 188-207: the generator runs to its next yield of line 206, from its
\* start (the storage file opens and holds storage information) or from the
\* previous yield of line 206
YieldInformation ==
  /\ mainpc = "for"
  /\ \/ genpc = "start" /\ storage.openable /\ storage.information # <<>>
     \/ genpc = "yield 206" /\ index + 1 < Len(list_of_storage_information)
  /\ LET first == genpc = "start"
         list == IF first THEN storage.information
                 ELSE list_of_storage_information
         i == IF first THEN 0 ELSE index + 1
         flag == LastEntry(IF first THEN FALSE ELSE last_entry, i, Len(list))
         f == _FormatStorageInformation(InfoAt(list, i), storage, flag, _verbose)
     IN /\ storage_file_open' = (first \/ storage_file_open)
        /\ opens' = IF first THEN opens + 1 ELSE opens
        /\ list_of_storage_information' = list
        /\ index' = i
        /\ last_entry' = flag
        /\ formatted' = Append(formatted,
               [index |-> i, last_entry |-> flag,
                information |-> f.information,
                preprocessing |-> f.preprocessing, reports |-> f.reports])
        /\ has_reports_calls' = has_reports_calls + f.has_reports
        /\ get_reports_calls' = get_reports_calls + f.get_reports
        /\ yielded' = Append(yielded, f.string)
        /\ storage_information' = f.string
  /\ genpc' = "yield 206"
  /\ mainpc' = "body"
  /\ UNCHANGED << options, storage, _verbose, storage_information_found,
                  printed, logged >>

\* lines 199 and 203: the generator returns after the yield of line 198 or
\* when the list is exhausted; the for statement of Main ends
Return ==
  /\ mainpc = "for"
  /\ \/ genpc = "yield 198"
     \/ genpc = "yield 206" /\ index + 1 >= Len(list_of_storage_information)
  /\ genpc' = "closed"
  /\ mainpc' = "after"
  /\ UNCHANGED << options, storage, _verbose, storage_information_found,
                  storage_information, printed, logged, storage_file_open,
                  opens, list_of_storage_information, index, last_entry,
                  yielded, formatted, has_reports_calls, get_reports_calls >>

\* Main, lines 254-255: the body of the for statement
MainBody ==
  /\ mainpc = "body"
  /\ storage_information_found' = TRUE
  /\ printed' = Append(printed, Encode(storage_information))
  /\ mainpc' = "for"
  /\ UNCHANGED << options, storage, _verbose, storage_information, logged,
                  genvars >>

\* Main, lines 257-260
MainReturn ==
  /\ mainpc = "after"
  /\ printed' = IF ~storage_information_found
                THEN Append(printed, Plain(NoInformationFound))
                ELSE printed
  /\ mainpc' = "return True"
  /\ UNCHANGED << options, storage, _verbose, storage_information_found,
                  storage_information, logged, genvars >>

Next ==
  \/ ParseOptions
  \/ BadConfigOption
  \/ OpenFailure
  \/ YieldEmpty
  \/ YieldInformation
  \/ Return
  \/ MainBody
  \/ MainReturn

Spec == Init /\ [][Next]_vars

CounterSpec == CounterInit /\ [][Next]_vars

----------------------------------------------------------------------------
\* Properties

Records == storage.information
NumRecords == Len(storage.information)
Opened == storage.openable /\ genpc # "start"
Calls == 1..Len(formatted)

\* the string a call returned is the join of its blocks
JoinedBlocks(f) ==
  Join(<< f.information, EmptyStr, f.preprocessing, EmptyStr, f.reports,
          Delimiter >>)

\* the report texts of the storage file, in its order, joined by newlines
ReportTexts ==
  Join([i \in 1..Len(storage.reports) |-> << << Lit(storage.reports[i]) >> >>])

\* C1: in a pass over N >= 1 storage information objects exactly one call,
\* the one of index N-1, has last_entry set, and the reports block of every
\* call of a smaller index is the empty string, in the string yielded too.
C1_OneLastEntry ==
  /\ \A k \in Calls :
       /\ formatted[k].last_entry <=> formatted[k].index = NumRecords - 1
       /\ formatted[k].index < NumRecords - 1 =>
            /\ formatted[k].reports = EmptyStr
            /\ yielded[k] = Join(<< formatted[k].information, EmptyStr,
                                    formatted[k].preprocessing, EmptyStr,
                                    EmptyStr, Delimiter >>)
       /\ yielded[k] = JoinedBlocks(formatted[k])
  /\ (Opened /\ NumRecords >= 1 /\ genpc = "closed") =>
       Cardinality({ k \in Calls : formatted[k].last_entry }) = 1

\* a verbose pass over two or more objects of a storage file with reports
\* has ended
C1_Witness ==
  /\ genpc = "closed" /\ _verbose /\ NumRecords >= 2
  /\ storage.reports # <<>>
  /\ Len(formatted) = NumRecords
  /\ formatted[NumRecords].reports # EmptyStr

\* C2: when the generator has terminated the storage file it opened is
\* closed, and it is opened at most once.
C2_Released ==
  /\ opens <= 1
  /\ genpc = "closed" => ~storage_file_open

\* C3: for a storage file that opens and holds no storage information Main
\* prints the line 'No Plaso storage information found.' and nothing else.
C3_NoInformationFound ==
  (mainpc = "return True" /\ storage.openable /\ NumRecords = 0) =>
    printed = << Plain(NoInformationFound) >>

\* C4: when the storage file cannot be opened the generator logs the error,
\* yields no item and ends without an exception reaching Main, whereas the
\* storage file without storage information yields the one item ''.
C4_OpenFailure ==
  /\ (options.valid /\ ~storage.openable) =>
       /\ yielded = <<>> /\ formatted = <<>> /\ opens = 0
       /\ mainpc \in {"ParseOptions", "for", "after", "return True"}
       /\ genpc \in {"start", "closed"}
       /\ genpc = "closed" => logged = << "Unable to open storage file" >>
       /\ genpc = "start" => logged = <<>>
  /\ (storage.openable /\ NumRecords = 0 /\ genpc = "closed") =>
       yielded = << EmptyStr >> /\ logged = <<>>

\* Main has returned after the storage file could not be opened
C4_Witness ==
  /\ ~storage.openable /\ mainpc = "return True" /\ genpc = "closed"
  /\ yielded = <<>> /\ Len(logged) = 1

\* C5: when the storage file opens and holds no storage information the
\* generator yields the one item '' and then ends; no object is formatted
\* and HasReports and GetReports are not called.
C5_EmptyList ==
  (Opened /\ NumRecords = 0) =>
    /\ yielded = << EmptyStr >>
    /\ genpc \in {"yield 198", "closed"}
    /\ (mainpc \in {"after", "return True"} => genpc = "closed")
    /\ formatted = <<>>
    /\ has_reports_calls = 0 /\ get_reports_calls = 0

\* the generator has ended on a storage file with reports and no object
C5_Witness ==
  /\ Opened /\ NumRecords = 0 /\ genpc = "closed"
  /\ storage.reports # <<>> /\ options.verbose
  /\ yielded = << EmptyStr >>

\* C6: over N >= 1 objects the generator yields N items, the k-th being the
\* formatted block of the k-th object of the list, and an item is produced
\* only when Main asks for it.
C6_InOrder ==
  (Opened /\ NumRecords >= 1) =>
    /\ Len(yielded) <= NumRecords
    /\ \A k \in 1..Len(yielded) :
         /\ yielded[k] = _FormatStorageInformation(
                Records[k], storage, k = NumRecords, _verbose).string
         /\ formatted[k].index = k - 1
    /\ Len(formatted) = Len(yielded)
    /\ genpc = "closed" => Len(yielded) = NumRecords
    /\ Len(yielded) = Len(printed) + (IF mainpc = "body" THEN 1 ELSE 0)
    /\ \A k \in 1..Len(printed) : printed[k] = Encode(yielded[k])

\* the pass over a list of different objects has ended
C6_Witness ==
  /\ Opened /\ NumRecords >= 2 /\ genpc = "closed"
  /\ Records[1] # Records[NumRecords]
  /\ Len(yielded) = NumRecords /\ Len(printed) = NumRecords
  /\ yielded[1] # yielded[NumRecords]

\* the token strings of a string
TokenStrings(string) ==
  UNION { { string[i][j].s : j \in 1..Len(string[i]) } : i \in 1..Len(string) }

\* the store details, preprocessing attribute values and report texts
Undisclosed ==
  { storage.reports[i] : i \in 1..Len(storage.reports) }
  \cup UNION { UNION { IF Records[r][a].key = "stores"
                       THEN UNION { { Records[r][a].items[i].key,
                                      Records[r][a].items[i].val } :
                                    i \in { j \in 1..Len(Records[r][a].items) :
                                            Records[r][a].items[j].key # "Number" } }
                       ELSE IF Records[r][a].key \in
                                 {"collection_information", "counter"}
                       THEN {}
                       ELSE { Records[r][a].val } :
                       a \in 1..Len(Records[r]) } :
               r \in 1..NumRecords }

\* the information block ends with the store information whose details are
\* replaced by the omission line
StoreDetailsOmitted(information) ==
  /\ Len(information) >= 4
  /\ information[Len(information)] = StoreOmitted[1]
  /\ information[Len(information) - 1][1] = Lit("\tNumber of available stores: ")
  /\ information[Len(information) - 2] = << Lit("Store information:") >>

\* C7 as stated: with verbosity off the store details, the preprocessing and
\* the reports block of every formatted object are the omission strings.
C7_AlwaysOmissionStrings ==
  ~_verbose =>
    \A k \in Calls :
      /\ formatted[k].preprocessing = PreprocessingOmitted
      /\ formatted[k].reports = ReportsOmitted
      /\ StoreDetailsOmitted(formatted[k].information)

\* C7 (amended): with verbosity off the preprocessing block of every object
\* is its omission string; the store block, present when the object has
\* store information, gives the omission line for the details; the reports
\* block is its omission string when the object is the last entry and the
\* storage file has reports, 'No reports stored.' when it is the last entry
\* and there are none, and '' otherwise; no store detail, preprocessing
\* attribute or report text is in the output.
C7_Omitted ==
  ~_verbose =>
    \A k \in Calls :
      LET f == formatted[k]
          info == Records[f.index + 1]
      IN /\ f.preprocessing = PreprocessingOmitted
         /\ f.reports = IF f.last_entry /\ storage.reports # <<>>
                        THEN ReportsOmitted
                        ELSE IF f.last_entry THEN NoReports ELSE EmptyStr
         /\ AttrIsSet(info, "stores") <=> StoreDetailsOmitted(f.information)
         /\ AttrIsSet(info, "stores") <=>
              \E i \in 1..Len(f.information) : f.information[i] = StoreOmitted[1]
         /\ TokenStrings(yielded[k]) \cap Undisclosed = {}

\* a non verbose pass has ended on a storage file with reports whose last
\* object has store details and whose first has not
C7_Witness ==
  /\ ~_verbose /\ genpc = "closed" /\ NumRecords >= 2
  /\ Len(formatted) = NumRecords
  /\ storage.reports # <<>>
  /\ AttrIsSet(Records[NumRecords], "stores")
  /\ ~AttrIsSet(Records[1], "stores")
  /\ HasKey(Records[1], "plugin_counter")
  /\ formatted[NumRecords].reports = ReportsOmitted
  /\ formatted[1].reports = EmptyStr

\* C8: the reports block of the call with last_entry set is 'No reports
\* stored.' when HasReports is false, the omission line when it is true and
\* verbosity is off, and the report texts in the order of the storage file
\* joined by newlines when it is true and verbosity is on; GetReports is
\* called in that last case only.
C8_ReportsBlock ==
  /\ \A k \in Calls :
       formatted[k].last_entry =>
         formatted[k].reports =
           IF storage.reports = <<>> THEN NoReports
           ELSE IF ~_verbose THEN ReportsOmitted
           ELSE ReportTexts
  /\ get_reports_calls =
       Cardinality({ k \in Calls : /\ formatted[k].last_entry
                                   /\ _verbose
                                   /\ storage.reports # <<>> })

\* the last entry of a verbose pass gives the two reports of the storage file
C8_Witness ==
  /\ _verbose /\ Len(storage.reports) = 2
  /\ Len(formatted) = NumRecords /\ NumRecords >= 1
  /\ formatted[NumRecords].last_entry
  /\ formatted[NumRecords].reports =
       << << Lit("report 1") >>, << Lit("report 2") >> >>
  /\ get_reports_calls = 1

\* the key of a 'key = value' or 'key =' line of the preprocessing block
IsAttributeLine(line, key) ==
  Len(line) >= 3 /\ line[1] = Lit("\t") /\ line[2] = Lit(key)

\* C9: in verbose mode no line of the preprocessing block is the line of
\* collection_information, counter, plugin_counter or stores.
C9_OwnBlockAttributes ==
  _verbose =>
    \A k \in Calls :
      \A i \in 1..Len(formatted[k].preprocessing) :
        \A key \in {"collection_information", "counter", "plugin_counter",
                    "stores"} :
          ~IsAttributeLine(formatted[k].preprocessing[i], key)

IsCounterLine(line) == Len(line) = 4 /\ line[1] = Lit("\tCounter: ")

\* the labels and counts of the 'Counter:' lines that follow the line of
\* the description in the information block
CounterBlock(information, description) ==
  LET h == CHOOSE i \in 1..Len(information) :
             information[i] = << Lit(description), Lit(":") >>
      end == CHOOSE j \in h..Len(information) :
               /\ \A i \in (h + 1)..j : IsCounterLine(information[i])
               /\ j = Len(information) \/ ~IsCounterLine(information[j + 1])
  IN [i \in 1..(end - h) |->
        [key |-> information[h + i][2].s, n |-> information[h + i][4].n]]

Position(d, key) == CHOOSE i \in 1..Len(d) : d[i].key = key

CounterAttributes ==
  { [key |-> "counter", description |-> "Parser counter information"],
    [key |-> "plugin_counter", description |-> "Plugin counter information"] }

\* C10: the 'Counter:' lines of the block of a non-empty counter hold every
\* label of the counter exactly once, in non-increasing order of count, and
\* labels of equal count are in the order of the items of the counter.
C10_MostCommon ==
  \A k \in Calls :
    \A a \in CounterAttributes :
      LET info == Records[formatted[k].index + 1]
      IN AttrIsSet(info, a.key) =>
           LET counter == Lookup(info, a.key).items
               block == CounterBlock(formatted[k].information, a.description)
           IN /\ Len(block) = Len(counter)
              /\ \A t \in 1..Len(counter) :
                   Cardinality({ p \in 1..Len(block) :
                                   block[p].key = counter[t].key }) = 1
              /\ \A p \in 1..Len(block) :
                   \E t \in 1..Len(counter) :
                     counter[t].key = block[p].key /\ counter[t].n = block[p].n
              /\ \A p \in 1..Len(block) : \A q \in (p + 1)..Len(block) :
                   /\ block[p].n >= block[q].n
                   /\ block[p].n = block[q].n =>
                        Position(counter, block[p].key)
                          < Position(counter, block[q].key)

\* the counter {c: 2, a: 5, b: 5}, in that order, was rendered a, b, c
C10_Witness ==
  /\ Len(formatted) = 1 /\ NumRecords = 1
  /\ HasKey(Records[1], "counter")
  /\ Lookup(Records[1], "counter").items =
       << Item("c", "", 2), Item("a", "", 5), Item("b", "", 5) >>
  /\ CounterBlock(formatted[1].information, "Parser counter information") =
       << [key |-> "a", n |-> 5], [key |-> "b", n |-> 5], [key |-> "c", n |-> 2] >>

====
